---- MODULE Spec2Model ----
(***************************************************************************)
(* Verification model of nornir-core / genja-core.                         *)
(*                                                                         *)
(* Part 1 (specification Spec): the concurrent connection cache,           *)
(* ConnectionManager (nornir-core/src/inventory.rs 652-709), a             *)
(* DashMap<ConnectionKey, Arc<Mutex<dyn Connection>>>.  Worker threads     *)
(* call get, insert, get_or_create, close_connection and                   *)
(* close_all_connections; every DashMap call and every Mutex call is one   *)
(* atomic step, the code between them is interleaved freely.               *)
(*                                                                         *)
(* Part 2 (specification SpecResolve): Host::resolve_connection_params     *)
(* (inventory.rs 250-301) on one host.                                     *)
(*                                                                         *)
(* Part 3 (specification SpecInventory): an Inventory whose hosts are      *)
(* resolved, mutated through their public fields and rewritten by the      *)
(* transform hook (inventory.rs 730-735).  SpecHosts is the same inventory  *)
(* with its hosts resolved between the writes.                             *)
(*                                                                         *)
(* Part 4 (specifications SpecNatString, SpecTree, SpecGroups): the        *)
(* library types NatString and CustomTreeMap (genja-core/src/types.rs) and *)
(* ParentGroups (inventory.rs 113-184).                                    *)
(***************************************************************************)
EXTENDS Integers, FiniteSets, Sequences, TLC

\* ------------------------------------------------------------------ bounds

\* cache operations and client lock() calls ever started
MaxOps == 3

\* worker threads sharing the Arc<ConnectionManager>
Threads == {1, 2}
\* shards of the DashMap, each with its own RwLock, in iteration order; with
\* two keys, two shards give every placement (same shard, different shards)
Shards == {1, 2}
NShards == Cardinality(Shards)
\* connection objects (Arc<Mutex<dyn Connection>>): each is built by an operation,
\* or is one of the two a cache in use holds before the threads start
Objs == 1..(MaxOps + 2)
\* the ConnectionKey values in use (hostname, connection_type)
Keys == {"A", "B"}
\* Option::None for a map lookup
NoConn == 0

VARIABLES
    connections_map,  \* ConnectionManager.connections_map: key -> object or NoConn
    shardOf,          \* DashMap's hash placement of each key, fixed per map
    nextObj,          \* objects built so far (object ids are 1..nextObj)
    keyOf,            \* the ConnectionKey each built connection reports from close()
    mutex,            \* Mutex of each object: 0 free, else the holding thread
    poisoned,         \* objects whose Mutex is poisoned
    closeCount,       \* Connection::close() invocations per object
    ctorCount,        \* constructor closure invocations per key
    pc,               \* position of each thread
    call,             \* the locals of each thread's current (or last) call
    holding,          \* the object a thread holds locked as a client (open/is_alive), 0 if none
    alone,            \* no other thread has stepped since the thread's call began
    ops,              \* operations started
    insOn,            \* history: insert(key) was called
    closeOn,          \* history: close_connection(key) or close_all_connections was called
    evicted           \* history: objects removed from under each key by a close

cvars == <<connections_map, shardOf, nextObj, keyOf, mutex, poisoned, closeCount,
           ctorCount, pc, call, holding, alone, ops, insOn, closeOn, evicted>>

VARIABLES
    host,             \* one Host of the inventory (inventory.rs 214-228)
    hcall             \* history: the last resolve_connection_params call on it

VARIABLES
    inventory,        \* the Inventory (inventory.rs 612-623), but for its connections
    icall,            \* history: the last operation on the inventory
    hookLog,          \* history: the arguments of each transform hook invocation
    calls,            \* history: apply_transform calls made
    first,            \* history: the value the first resolve of (host, type) computed
    hostOps           \* operations on the inventory so far

ivars == <<inventory, icall, hookLog, calls, first, hostOps>>

VARIABLES
    left,             \* a NatString (types.rs 36-37), as its characters
    right,            \* another one
    ordering          \* the Ordering left.cmp(&right) returned, if it was called

nvars == <<left, right, ordering>>

VARIABLES
    tree,             \* a CustomTreeMap<V> (types.rs 155-156)
    tcall,            \* history: the last call on it
    latest,           \* history: per key, the value of its last insert not yet removed
    treeOps           \* calls made on it

tvars == <<tree, tcall, latest, treeOps>>

VARIABLES
    parent_groups,    \* a ParentGroups value (inventory.rs 120-121), if one was made
    gcall,            \* history: the last deserialization, its input and its result
    built,            \* the Host built with the groups, if one was
    groupOps          \* operations on ParentGroups so far

gvars == <<parent_groups, gcall, built, groupOps>>

VARIABLES
    genja,            \* a Genja value (lib.rs 14-21): its inventory's hosts and host_ids
    fcall             \* history: the last filter call, the value it was called on

fvars == <<genja, fcall>>

\* the variables of the library types
pvars == <<nvars, tvars, gvars, fvars>>

hvars == <<host, hcall, ivars, pvars>>

vars == <<cvars, hvars>>

\* Option<T>: None, Some(v)
None == <<>>
Some(v) == <<v>>

\* ------------------------------------------------------------- DashMap API

\* (mutant) a lookup that never finds the entry
Get_miss(m, key) == NoConn

\* DashMap::get(key).map(|e| e.value().clone())
Get(m, key) == m[key]

\* DashMap::insert(key, value): overwrites
\* (mutant) an existing entry is kept
MapInsert_keep(m, key, value) ==
    IF m[key] # NoConn THEN m ELSE [m EXCEPT ![key] = value]

MapInsert(m, key, value) == [m EXCEPT ![key] = value]

\* (mutant) the entry is overwritten as by insert
OrInsertWith_overwrite(m, key, value) == [m EXCEPT ![key] = value]

\* DashMap::entry(key).or_insert_with(|| value): keeps an existing entry
OrInsertWith(m, key, value) ==
    IF m[key] = NoConn THEN [m EXCEPT ![key] = value] ELSE m

\* (mutant) the entry is only read, not removed
Remove_keep(m, key) == m

\* (mutant) every entry is removed
Remove_all(m, key) == [k \in Keys |-> NoConn]

\* DashMap::remove(key): the map without the entry
Remove(m, key) == [m EXCEPT ![key] = NoConn]

\* (mutant) clear() leaves the entries in place
ClearShard_skip(m, s) == m

\* one shard's part of DashMap::clear (retain(|_, _| false) under the shard's write lock)
ClearShard(m, s) == [k \in Keys |-> IF shardOf[k] = s THEN NoConn ELSE m[k]]

\* the keys with an entry in shard s
ShardKeys(m, s) == {k \in Keys : shardOf[k] = s /\ m[k] # NoConn}

\* (mutant) close_connection keeps a guard on the entry's shard (as if it had
\* looked the entry up with get() and closed it through the reference)
HeldShards_cc(t) ==
    IF pc[t] \in {"ca_iter", "ca_lock", "ca_close"} /\ call[t].cur # 0
    THEN {call[t].cur}
    ELSE IF pc[t] \in {"cc_lock", "cc_close"} THEN {shardOf[call[t].key]} ELSE {}

\* The shards on which thread t holds a read guard.  Only the iterator of
\* close_all_connections keeps one across steps: DashMap's Iter holds the
\* guard of the shard it is in, and each yielded entry shares it, so it is
\* held while lock() and close() run.  close_connection holds none: remove()
\* returns the owned pair and releases the shard before lock().
HeldShards(t) ==
    IF pc[t] \in {"ca_iter", "ca_lock", "ca_close"} /\ call[t].cur # 0
    THEN {call[t].cur} ELSE {}

\* a write lock on shard s can be taken by t: no other thread holds a guard on it
ShardWritable(t, s) == \A u \in Threads \ {t} : s \notin HeldShards(u)

\* ------------------------------------------------------------- bookkeeping

BlankCall ==
    [op |-> "none", key |-> "A", connection |-> NoConn, entry |-> "A",
     pre |-> [k \in Keys |-> NoConn], ret |-> NoConn, ctors |-> 0,
     closed |-> <<>>, lock |-> "none",
     shard_i |-> 0, cur |-> 0, visited |-> {}, clear_i |-> 0]

NewCall(o, k) == [BlankCall EXCEPT !.op = o, !.key = k, !.pre = connections_map]

Idle(t) == pc[t] \in {"idle", "done"}

CanStart(t) == Idle(t) /\ ops < MaxOps

\* alone after a step of thread t (start: the step begins a call of t)
AloneAfter(t, start) ==
    [x \in Threads |-> IF x = t THEN (IF start THEN TRUE ELSE alone[t]) ELSE FALSE]

\* ConnectionManager::default(): an empty map, no thread in a call
InitCache ==
    /\ connections_map = [k \in Keys |-> NoConn]
    /\ nextObj = 0
    /\ keyOf = [o \in Objs |-> "A"]
    /\ mutex = [o \in Objs |-> 0]
    /\ poisoned = {}
    /\ closeCount = [o \in Objs |-> 0]
    /\ ctorCount = [k \in Keys |-> 0]
    /\ pc = [t \in Threads |-> "idle"]
    /\ call = [t \in Threads |-> BlankCall]
    /\ holding = [t \in Threads |-> 0]
    /\ alone = [t \in Threads |-> TRUE]
    /\ ops = 0
    /\ insOn = [k \in Keys |-> FALSE]
    /\ closeOn = [k \in Keys |-> FALSE]
    /\ evicted = [k \in Keys |-> {}]

\* ------------------------------------------------------ ConnectionManager

\* ConnectionManager::get(key)
GetOp(t, key) ==
    /\ CanStart(t)
    /\ call' = [call EXCEPT ![t] =
                  [NewCall("get", key) EXCEPT !.ret = Get(connections_map, key)]]
    /\ pc' = [pc EXCEPT ![t] = "done"]
    /\ alone' = AloneAfter(t, TRUE)
    /\ ops' = ops + 1
    /\ UNCHANGED <<connections_map, shardOf, nextObj, keyOf, mutex, poisoned,
                   closeCount, ctorCount, holding, insOn, closeOn, evicted>>
    /\ UNCHANGED hvars

\* ConnectionManager::insert(key, connection): the handle is pre-built by the
\* caller, either a new object or a handle of this key it already has.
Insert(t, key, o) ==
    /\ CanStart(t)
    /\ \/ o = nextObj + 1
       \/ o <= nextObj /\ keyOf[o] = key
    /\ ShardWritable(t, shardOf[key])
    /\ connections_map' = MapInsert(connections_map, key, o)
    /\ nextObj' = IF o > nextObj THEN o ELSE nextObj
    /\ keyOf' = [keyOf EXCEPT ![o] = key]
    /\ call' = [call EXCEPT ![t] = [NewCall("insert", key) EXCEPT !.connection = o]]
    /\ pc' = [pc EXCEPT ![t] = "done"]
    /\ alone' = AloneAfter(t, TRUE)
    /\ ops' = ops + 1
    /\ insOn' = [insOn EXCEPT ![key] = TRUE]
    /\ UNCHANGED <<shardOf, mutex, poisoned, closeCount, ctorCount, holding,
                   closeOn, evicted>>
    /\ UNCHANGED hvars

\* get_or_create, line 675: if let Some(connection) = self.get(&key) { return connection; }
\* On a miss the constructor closure is invoked next (line 679).
GocGet(t, key) ==
    /\ CanStart(t)
    /\ LET found == Get(connections_map, key) IN
       IF found # NoConn
       THEN /\ call' = [call EXCEPT ![t] =
                          [NewCall("get_or_create", key) EXCEPT !.ret = found]]
            /\ pc' = [pc EXCEPT ![t] = "done"]
            /\ UNCHANGED ctorCount
       ELSE /\ call' = [call EXCEPT ![t] =
                          [NewCall("get_or_create", key) EXCEPT !.ctors = 1]]
            /\ pc' = [pc EXCEPT ![t] = "goc_ctor"]
            /\ ctorCount' = [ctorCount EXCEPT ![key] = @ + 1]
    /\ alone' = AloneAfter(t, TRUE)
    /\ ops' = ops + 1
    /\ UNCHANGED <<connections_map, shardOf, nextObj, keyOf, mutex, poisoned,
                   closeCount, holding, insOn, closeOn, evicted>>
    /\ UNCHANGED hvars

\* get_or_create, line 679: ctor() returns and Arc::new(Mutex::new(..)) builds the object
GocCtor(t) ==
    /\ pc[t] = "goc_ctor"
    /\ nextObj' = nextObj + 1
    /\ keyOf' = [keyOf EXCEPT ![nextObj + 1] = call[t].key]
    /\ call' = [call EXCEPT ![t].connection = nextObj + 1]
    /\ pc' = [pc EXCEPT ![t] = "goc_entry"]
    /\ alone' = AloneAfter(t, FALSE)
    /\ UNCHANGED <<connections_map, shardOf, mutex, poisoned, closeCount,
                   ctorCount, holding, ops, insOn, closeOn, evicted>>
    /\ UNCHANGED hvars

\* get_or_create, lines 680-683: entry(key).or_insert_with(|| connection.clone());
\* then the caller's own `connection` is returned.
GocEntry(t) ==
    /\ pc[t] = "goc_entry"
    /\ ShardWritable(t, shardOf[call[t].key])
    /\ connections_map' = OrInsertWith(connections_map, call[t].key, call[t].connection)
    /\ call' = [call EXCEPT ![t].ret = call[t].connection]
    /\ pc' = [pc EXCEPT ![t] = "done"]
    /\ alone' = AloneAfter(t, FALSE)
    /\ UNCHANGED <<shardOf, nextObj, keyOf, mutex, poisoned, closeCount,
                   ctorCount, holding, ops, insOn, closeOn, evicted>>
    /\ UNCHANGED hvars

\* close_connection, line 689: self.connections_map.remove(key)
CcRemove(t, key) ==
    /\ CanStart(t)
    /\ ShardWritable(t, shardOf[key])
    /\ LET removed == Get(connections_map, key) IN
       /\ connections_map' = Remove(connections_map, key)
       /\ call' = [call EXCEPT ![t] =
                     [NewCall("close_connection", key) EXCEPT !.connection = removed]]
       /\ pc' = [pc EXCEPT ![t] = IF removed = NoConn THEN "done" ELSE "cc_lock"]
       /\ evicted' = IF removed = NoConn THEN evicted
                     ELSE [evicted EXCEPT ![key] = @ \cup {removed}]
    /\ closeOn' = [closeOn EXCEPT ![key] = TRUE]
    /\ alone' = AloneAfter(t, TRUE)
    /\ ops' = ops + 1
    /\ UNCHANGED <<shardOf, nextObj, keyOf, mutex, poisoned, closeCount,
                   ctorCount, holding, insOn>>
    /\ UNCHANGED hvars

\* a Mutex whose poison flag is ignored
Lock_unpoisoned(o) == "ok"

\* std::sync::Mutex::lock once the Mutex is free: Err (PoisonError) if a holder
\* panicked, else Ok with the guard
Lock(o) == IF o \in poisoned THEN "err" ELSE "ok"

\* close_connection, lines 690-691: if let Ok(mut connection) = connection.lock()
\* { connection.close(); }.  lock() waits for the Mutex; on a poisoned Mutex it
\* returns Err and the guard inside the error is dropped at once.
CcLock(t) ==
    /\ pc[t] = "cc_lock"
    /\ LET o == call[t].connection IN
       /\ mutex[o] = 0
       /\ IF Lock(o) = "err"
          THEN /\ call' = [call EXCEPT ![t].lock = "err"]
               /\ pc' = [pc EXCEPT ![t] = "done"]
               /\ UNCHANGED <<mutex, closeCount>>
          ELSE /\ call' = [call EXCEPT ![t].lock = "ok",
                                       ![t].closed = Append(@, o)]
               /\ pc' = [pc EXCEPT ![t] = "cc_close"]
               /\ mutex' = [mutex EXCEPT ![o] = t]
               /\ closeCount' = [closeCount EXCEPT ![o] = @ + 1]
    /\ alone' = AloneAfter(t, FALSE)
    /\ UNCHANGED <<connections_map, shardOf, nextObj, keyOf, poisoned,
                   ctorCount, holding, ops, insOn, closeOn, evicted>>
    /\ UNCHANGED hvars

\* close_connection, lines 691-692: close() returns and the MutexGuard is dropped
CcClose(t) ==
    /\ pc[t] = "cc_close"
    /\ mutex' = [mutex EXCEPT ![call[t].connection] = 0]
    /\ pc' = [pc EXCEPT ![t] = "done"]
    /\ alone' = AloneAfter(t, FALSE)
    /\ UNCHANGED <<connections_map, shardOf, nextObj, keyOf, poisoned, closeCount,
                   ctorCount, call, holding, ops, insOn, closeOn, evicted>>
    /\ UNCHANGED hvars

\* close_all_connections, line 698: self.connections_map.iter() (no lock taken yet)
CaStart(t) ==
    /\ CanStart(t)
    /\ call' = [call EXCEPT ![t] = NewCall("close_all_connections", "A")]
    /\ pc' = [pc EXCEPT ![t] = "ca_iter"]
    /\ closeOn' = [k \in Keys |-> TRUE]
    /\ alone' = AloneAfter(t, TRUE)
    /\ ops' = ops + 1
    /\ UNCHANGED <<connections_map, shardOf, nextObj, keyOf, mutex, poisoned,
                   closeCount, ctorCount, holding, insOn, evicted>>
    /\ UNCHANGED hvars

\* close_all_connections, line 698: one step of the iterator behind for_each.
\* It yields an entry of the shard whose guard it holds, or takes the read
\* guard of the next shard (dropping the previous one), or, past the last
\* shard, ends and drops its guard; line 703 follows.
CaNext(t) ==
    /\ pc[t] = "ca_iter"
    /\ LET c == call[t]
           remaining == IF c.cur = 0 THEN {}
                        ELSE ShardKeys(connections_map, c.cur) \ c.visited
       IN  IF remaining # {}
           THEN \E k \in remaining :
                  /\ call' = [call EXCEPT ![t].entry = k,
                                          ![t].connection = connections_map[k]]
                  /\ pc' = [pc EXCEPT ![t] = "ca_lock"]
           ELSE IF c.shard_i = NShards
           THEN /\ call' = [call EXCEPT ![t].cur = 0]
                /\ pc' = [pc EXCEPT ![t] = "ca_clear"]
           ELSE /\ call' = [call EXCEPT ![t].cur = c.shard_i + 1,
                                        ![t].shard_i = c.shard_i + 1]
                /\ UNCHANGED pc
    /\ alone' = AloneAfter(t, FALSE)
    /\ UNCHANGED <<connections_map, shardOf, nextObj, keyOf, mutex, poisoned,
                   closeCount, ctorCount, holding, ops, insOn, closeOn, evicted>>
    /\ UNCHANGED hvars

\* close_all_connections, lines 699-700: if let Ok(mut connection) =
\* entry.value().lock() { connection.close(); }, the shard guard still held
CaLock(t) ==
    /\ pc[t] = "ca_lock"
    /\ LET o == call[t].connection IN
       /\ mutex[o] = 0
       /\ IF Lock(o) = "err"
          THEN /\ call' = [call EXCEPT ![t].lock = "err",
                                       ![t].visited = @ \cup {call[t].entry}]
               /\ pc' = [pc EXCEPT ![t] = "ca_iter"]
               /\ UNCHANGED <<mutex, closeCount>>
          ELSE /\ call' = [call EXCEPT ![t].lock = "ok",
                                       ![t].closed = Append(@, o)]
               /\ pc' = [pc EXCEPT ![t] = "ca_close"]
               /\ mutex' = [mutex EXCEPT ![o] = t]
               /\ closeCount' = [closeCount EXCEPT ![o] = @ + 1]
    /\ alone' = AloneAfter(t, FALSE)
    /\ UNCHANGED <<connections_map, shardOf, nextObj, keyOf, poisoned,
                   ctorCount, holding, ops, insOn, closeOn, evicted>>
    /\ UNCHANGED hvars

\* close_all_connections, lines 700-701: close() returns, the MutexGuard is dropped
CaClose(t) ==
    /\ pc[t] = "ca_close"
    /\ mutex' = [mutex EXCEPT ![call[t].connection] = 0]
    /\ call' = [call EXCEPT ![t].visited = @ \cup {call[t].entry}]
    /\ pc' = [pc EXCEPT ![t] = "ca_iter"]
    /\ alone' = AloneAfter(t, FALSE)
    /\ UNCHANGED <<connections_map, shardOf, nextObj, keyOf, poisoned, closeCount,
                   ctorCount, holding, ops, insOn, closeOn, evicted>>
    /\ UNCHANGED hvars

\* close_all_connections, line 703: self.connections_map.clear(), one shard
\* after the other, each under its write lock
CaClear(t) ==
    /\ pc[t] = "ca_clear"
    /\ LET s == call[t].clear_i + 1 IN
       /\ ShardWritable(t, s)
       /\ connections_map' = ClearShard(connections_map, s)
       /\ evicted' = [k \in Keys |->
                        IF k \in ShardKeys(connections_map, s)
                        THEN evicted[k] \cup {connections_map[k]} ELSE evicted[k]]
       /\ call' = [call EXCEPT ![t].clear_i = s]
       /\ pc' = [pc EXCEPT ![t] = IF s = NShards THEN "done" ELSE "ca_clear"]
    /\ alone' = AloneAfter(t, FALSE)
    /\ UNCHANGED <<shardOf, nextObj, keyOf, mutex, poisoned, closeCount,
                   ctorCount, holding, ops, insOn, closeOn>>
    /\ UNCHANGED hvars

\* ------------------------------------------------- users of a shared handle

\* A holder of a handle locks it to call open() or is_alive() (lines 625-634)
ClientLock(t, o) ==
    /\ CanStart(t)
    /\ ops' = ops + 1
    /\ holding[t] = 0
    /\ o <= nextObj
    /\ mutex[o] = 0
    /\ o \notin poisoned
    /\ mutex' = [mutex EXCEPT ![o] = t]
    /\ holding' = [holding EXCEPT ![t] = o]
    /\ pc' = [pc EXCEPT ![t] = "idle"]
    /\ call' = [call EXCEPT ![t] = BlankCall]
    /\ alone' = AloneAfter(t, FALSE)
    /\ UNCHANGED <<connections_map, shardOf, nextObj, keyOf, poisoned, closeCount,
                   ctorCount, insOn, closeOn, evicted>>
    /\ UNCHANGED hvars

\* the call returns and the MutexGuard is dropped
ClientUnlock(t) ==
    /\ Idle(t)
    /\ holding[t] # 0
    /\ mutex' = [mutex EXCEPT ![holding[t]] = 0]
    /\ holding' = [holding EXCEPT ![t] = 0]
    /\ pc' = [pc EXCEPT ![t] = "idle"]
    /\ call' = [call EXCEPT ![t] = BlankCall]
    /\ alone' = AloneAfter(t, FALSE)
    /\ UNCHANGED <<connections_map, shardOf, nextObj, keyOf, poisoned, closeCount,
                   ctorCount, ops, insOn, closeOn, evicted>>
    /\ UNCHANGED hvars

\* the call panics: unwinding drops the MutexGuard and poisons the Mutex
ClientPanic(t) ==
    /\ Idle(t)
    /\ holding[t] # 0
    /\ mutex' = [mutex EXCEPT ![holding[t]] = 0]
    /\ poisoned' = poisoned \cup {holding[t]}
    /\ holding' = [holding EXCEPT ![t] = 0]
    /\ pc' = [pc EXCEPT ![t] = "idle"]
    /\ call' = [call EXCEPT ![t] = BlankCall]
    /\ alone' = AloneAfter(t, FALSE)
    /\ UNCHANGED <<connections_map, shardOf, nextObj, keyOf, closeCount,
                   ctorCount, ops, insOn, closeOn, evicted>>
    /\ UNCHANGED hvars

\* ------------------------------------------------------------------- Host

\* connection types with ConnectionOptions on some host
ConnTypes == {"ssh", "netconf"}

\* the values a host's own fields are built with
BaseVal ==
    [hostname |-> "10-0-0-1", port |-> 22, username |-> "admin",
     password |-> "secret", platform |-> "linux"]

\* the values ConnectionOptions fields are built with
OverVal ==
    [hostname |-> "192.0.2.1", port |-> 830, username |-> "automation",
     password |-> "router_pass", platform |-> "cisco_ios", extras |-> "extras"]

\* CustomTreeMap::new / get / insert, on maps from key strings to values, for
\* keys that <NatString as Ord>::cmp tells apart (connection types, host names)
TreeNew == [k \in {} |-> None]
TreeGet(m, key) == IF key \in DOMAIN m THEN Some(m[key]) ELSE None
TreeInsert(m, key, value) ==
    [k \in DOMAIN m \cup {key} |-> IF k = key THEN value ELSE m[k]]

\* ConnectionOptions (inventory.rs 61-68): every field an Option
ConnectionOptionsSet ==
    [hostname : {None, Some(OverVal.hostname)},
     port     : {None, Some(OverVal.port)},
     username : {None, Some(OverVal.username)},
     password : {None, Some(OverVal.password)},
     platform : {None, Some(OverVal.platform)},
     extras   : {None, Some(OverVal.extras)}]

\* ConnectionOptions::new()
ConnectionOptionsNew ==
    [hostname |-> None, port |-> None, username |-> None, password |-> None,
     platform |-> None, extras |-> None]

\* the ConnectionOptions of build_connection_options (all but extras set)
ConnectionOptionsFull ==
    [hostname |-> Some(OverVal.hostname), port |-> Some(OverVal.port),
     username |-> Some(OverVal.username), password |-> Some(OverVal.password),
     platform |-> Some(OverVal.platform), extras |-> None]

\* the override sets HostBuilder::connection_options can leave on a host:
\* none, or a map with any options under "ssh" and some under "netconf"
OverrideSets ==
    {None} \cup
    {Some(m) : m \in
        UNION {[d -> ConnectionOptionsSet] : d \in {{}, {"ssh"}}}} \cup
    {Some(TreeInsert(m, "netconf", o)) :
        m \in UNION {[d -> ConnectionOptionsSet] : d \in {{}, {"ssh"}}},
        o \in {ConnectionOptionsNew, ConnectionOptionsFull}}

\* HostBuilder::build (inventory.rs 390-404): the fields the builder was
\* given, an empty resolved-parameter cache
BuiltHosts ==
    {[name |-> "router1.lab", hostname |-> hn, port |-> po, username |-> us,
      password |-> pw, platform |-> pl, groups |-> None, data |-> None,
      connection_options |-> co, resolved_connection_params |-> TreeNew] :
        hn \in {None, Some(BaseVal.hostname)}, po \in {None, Some(BaseVal.port)},
        us \in {None, Some(BaseVal.username)}, pw \in {None, Some(BaseVal.password)},
        pl \in {None, Some(BaseVal.platform)}, co \in OverrideSets}

\* Host::new (inventory.rs 231-245)
HostNew(name) ==
    [name |-> name, hostname |-> None, port |-> None, username |-> None,
     password |-> None, platform |-> None, groups |-> None, data |-> None,
     connection_options |-> None, resolved_connection_params |-> TreeNew]

\* (mutant) the override replaces every field, absent ones included
ApplyOptions_wholesale(resolved, options) ==
    [hostname |-> IF options.hostname # None THEN options.hostname[1]
                  ELSE resolved.hostname,
     port |-> options.port, username |-> options.username,
     password |-> options.password, platform |-> options.platform,
     extras |-> options.extras]

\* resolve_connection_params, lines 273-290: the override's present fields
\* replace the base ones, one `if` per field
ApplyOptions(resolved, options) ==
    LET r1 == IF options.hostname # None
              THEN [resolved EXCEPT !.hostname = options.hostname[1]] ELSE resolved
        r2 == IF options.port # None THEN [r1 EXCEPT !.port = options.port] ELSE r1
        r3 == IF options.username # None
              THEN [r2 EXCEPT !.username = options.username] ELSE r2
        r4 == IF options.password # None
              THEN [r3 EXCEPT !.password = options.password] ELSE r3
        r5 == IF options.platform # None
              THEN [r4 EXCEPT !.platform = options.platform] ELSE r4
    IN  IF options.extras # None THEN [r5 EXCEPT !.extras = options.extras] ELSE r5

\* (mutant) an unset hostname is left empty instead of defaulting to the name
BaseParams_noname(h) ==
    [hostname |-> IF h.hostname # None THEN h.hostname[1] ELSE "",
     port |-> h.port, username |-> h.username, password |-> h.password,
     platform |-> h.platform, extras |-> None]

\* resolve_connection_params, lines 259-269: the host's own fields
BaseParams(h) ==
    [hostname |-> IF h.hostname # None THEN h.hostname[1] ELSE h.name,
     port |-> h.port, username |-> h.username, password |-> h.password,
     platform |-> h.platform, extras |-> None]

\* resolve_connection_params, lines 271-272: the override entry of the type
OptionsFor(h, connection_type) ==
    IF h.connection_options # None
    THEN TreeGet(h.connection_options[1], connection_type) ELSE None

\* resolve_connection_params, lines 259-292: the value computed on a cache miss
Resolved(h, connection_type) ==
    LET options == OptionsFor(h, connection_type) IN
    IF options # None THEN ApplyOptions(BaseParams(h), options[1]) ELSE BaseParams(h)

\* Host::resolve_connection_params(connection_type) (inventory.rs 250-301)
Resolve(connection_type) ==
    /\ LET cache == host.resolved_connection_params
            after == IF TreeGet(cache, connection_type) = None
                     THEN TreeInsert(cache, connection_type,
                                     Resolved(host, connection_type))
                     ELSE cache
       IN  /\ host' = [host EXCEPT !.resolved_connection_params = after]
           /\ hcall' = [connection_type |-> connection_type, pre |-> host,
                        ret |-> TreeGet(after, connection_type)]
    /\ UNCHANGED <<cvars, ivars, pvars>>

\* no resolve call made yet
NoCall == [connection_type |-> "", pre |-> HostNew(""), ret |-> None]

\* --------------------------------------------------------------- serde_json

\* serde_json::Value: strings, numbers and objects (maps from field names)
JsonString(s) == [t |-> "string", s |-> s]
JsonNumber(n) == [t |-> "number", s |-> n]
JsonObject(o) == [t |-> "object", o |-> o]

\* Value::as_str, Value::as_object, Value::get(&str), Map::get
AsStr(v) == IF v.t = "string" THEN Some(v.s) ELSE None
AsObject(v) == IF v.t = "object" THEN Some(v.o) ELSE None
ObjGet(o, key) == IF key \in DOMAIN o THEN Some(o[key]) ELSE None
JsonGet(v, key) == IF v.t = "object" THEN ObjGet(v.o, key) ELSE None

\* ---------------------------------------------------------------- NatString

\* digits in the longest run of digits of a key
MaxRun == 2

\* the characters of the keys: letters, digits and the blank
Letters == <<"a", "b", "c", "d", "e", "f", "g", "h", "i", "j", "k", "l", "m",
             "n", "o", "p", "q", "r", "s", "t", "u", "v", "w", "x", "y", "z">>
DigitChars == <<"0", "1", "2", "3", "4", "5", "6", "7", "8", "9">>

\* char::to_digit(10)
ToDigit(c) ==
    IF \E i \in DOMAIN DigitChars : DigitChars[i] = c
    THEN Some((CHOOSE i \in DOMAIN DigitChars : DigitChars[i] = c) - 1)
    ELSE None

\* char::is_whitespace
IsWhitespace(c) == c = " "

\* the code point of a character, which char::cmp compares
CodePoint(c) ==
    IF c = " " THEN 32
    ELSE IF ToDigit(c) # None THEN 48 + ToDigit(c)[1]
    ELSE 96 + (CHOOSE i \in DOMAIN Letters : Letters[i] = c)

\* Ord::cmp on integers
IntCmp(x, y) == IF x < y THEN "Less" ELSE IF x > y THEN "Greater" ELSE "Equal"

\* the character at position i of string a (read_left!/read_right! of natord),
\* None past the end, and its digit value
CharAt(a, i) == IF i <= Len(a) THEN Some(a[i]) ELSE None
DigitAt(a, i) == IF i <= Len(a) THEN ToDigit(a[i]) ELSE None

\* natord: skip preceding whitespace, from position i of a
RECURSIVE SkipWhitespace(_, _)
SkipWhitespace(a, i) ==
    IF i <= Len(a) /\ IsWhitespace(a[i]) THEN SkipWhitespace(a, i + 1) ELSE i

\* natord's left-aligned digit loop ('digits_left), entered after the digits at
\* i - 1 and j - 1 compared equal: the first differing digit decides, a longer
\* run is greater; "Equal" with the positions reached when both runs end
RECURSIVE DigitsLeft(_, _, _, _)
DigitsLeft(a, b, i, j) ==
    LET ll == DigitAt(a, i)
        rr == DigitAt(b, j)
    IN  IF ll # None /\ rr # None
        THEN IF IntCmp(ll[1], rr[1]) # "Equal"
             THEN [ord |-> IntCmp(ll[1], rr[1]), i |-> i, j |-> j]
             ELSE DigitsLeft(a, b, i + 1, j + 1)
        ELSE IF ll # None THEN [ord |-> "Greater", i |-> i, j |-> j]
        ELSE IF rr # None THEN [ord |-> "Less", i |-> i, j |-> j]
        ELSE [ord |-> "Equal", i |-> i, j |-> j]

\* natord's right-aligned digit loop ('digits_right): a longer run is greater,
\* runs of one length are decided by their first differing digit (lastcmp)
RECURSIVE DigitsRight(_, _, _, _, _)
DigitsRight(a, b, i, j, lastcmp) ==
    LET ll == DigitAt(a, i)
        rr == DigitAt(b, j)
    IN  IF ll # None /\ rr # None
        THEN DigitsRight(a, b, i + 1, j + 1,
                         IF lastcmp = "Equal" THEN IntCmp(ll[1], rr[1]) ELSE lastcmp)
        ELSE IF ll # None THEN [ord |-> "Greater", i |-> i, j |-> j]
        ELSE IF rr # None THEN [ord |-> "Less", i |-> i, j |-> j]
        ELSE [ord |-> lastcmp, i |-> i, j |-> j]

\* natord: two digits met at positions i and j; a run that starts with 0 on
\* either side is compared left-aligned, any other right-aligned
DigitRun(a, b, i, j) ==
    LET ll == DigitAt(a, i)[1]
        rr == DigitAt(b, j)[1]
    IN  IF ll = 0 \/ rr = 0
        THEN IF IntCmp(ll, rr) # "Equal"
             THEN [ord |-> IntCmp(ll, rr), i |-> i, j |-> j]
             ELSE DigitsLeft(a, b, i + 1, j + 1)
        ELSE DigitsRight(a, b, i + 1, j + 1, IntCmp(ll, rr))

\* natord::compare_iter, the 'nondigits loop from positions i and j
RECURSIVE NonDigits(_, _, _, _)
NonDigits(a, b, i0, j0) ==
    LET i == SkipWhitespace(a, i0)
        j == SkipWhitespace(b, j0)
        l == CharAt(a, i)
        r == CharAt(b, j)
    IN  IF l # None /\ r # None
        THEN IF DigitAt(a, i) # None /\ DigitAt(b, j) # None
             THEN LET run == DigitRun(a, b, i, j)
                  IN  IF run.ord # "Equal" THEN run.ord
                      ELSE NonDigits(a, b, run.i, run.j)
             ELSE LET c == IntCmp(CodePoint(l[1]), CodePoint(r[1]))
                  IN  IF c # "Equal" THEN c ELSE NonDigits(a, b, i + 1, j + 1)
        ELSE IF l # None THEN "Greater"
        ELSE IF r # None THEN "Less"
        ELSE "Equal"

\* <NatString as Ord>::cmp (types.rs 83-87, lib.rs 51-55): natord::compare
NatCompare(a, b) == NonDigits(a, b, 1, 1)

\* the digit runs of the keys compared: up to MaxRun digits out of 0, 1 and 2
RECURSIVE RunsOfLen(_)
RunsOfLen(n) ==
    IF n = 0 THEN {<<>>}
    ELSE {Append(d, c) : d \in RunsOfLen(n - 1), c \in {"0", "1", "2"}}
Runs == UNION {RunsOfLen(n) : n \in 1..MaxRun}

\* what stands before and after the run
Prefixes == {<<>>, <<"h", "o", "s", "t">>, <<"a", " ">>}
Suffixes == {<<>>, <<"b">>}

\* the keys compared
NatStrings == {p \o d \o s : p \in Prefixes, d \in Runs \cup {<<>>}, s \in Suffixes}

\* a cmp call on two keys
Cmp ==
    /\ ordering = None
    /\ ordering' = Some(NatCompare(left, right))
    /\ UNCHANGED <<left, right, cvars, host, hcall, ivars, tvars, gvars, fvars>>

\* no NatString compared
NoStrings == left = <<>> /\ right = <<>> /\ ordering = None

\* ------------------------------------------------------------ CustomTreeMap

\* insert, get and remove calls ever made on the map
MaxTreeOps == 3

\* the keys and values the map is used with
TreeKeys == {<<"a", "b">>, <<"a", " ", "b">>, <<"a", "1">>}
TreeValues == {"v1", "v2"}

\* BTreeMap<NatString, V>: the entries in the order of their keys
BTreeNew == <<>>

\* the entries whose key compares Equal to key under <NatString as Ord>::cmp,
\* which is how the BTreeMap finds a key
BTreeFind(m, key) == {i \in DOMAIN m : NatCompare(m[i].key, key) = "Equal"}

\* CustomTreeMap::get (types.rs 173-175)
BTreeGet(m, key) ==
    IF BTreeFind(m, key) # {}
    THEN Some(m[CHOOSE i \in BTreeFind(m, key) : TRUE].value) ELSE None

\* CustomTreeMap::insert (types.rs 166-171): BTreeMap::insert replaces the
\* value of an entry whose key compares Equal and keeps that entry's key, or
\* adds an entry at the key's place in the order
BTreeInsert(m, key, value) ==
    IF BTreeFind(m, key) # {}
    THEN [m EXCEPT ![CHOOSE i \in BTreeFind(m, key) : TRUE].value = value]
    ELSE LET n == Cardinality({i \in DOMAIN m : NatCompare(m[i].key, key) = "Less"})
         IN  SubSeq(m, 1, n) \o <<[key |-> key, value |-> value]>>
                \o SubSeq(m, n + 1, Len(m))

\* CustomTreeMap::remove (types.rs 181-183)
BTreeRemove(m, key) ==
    IF BTreeFind(m, key) # {}
    THEN LET i == CHOOSE i \in BTreeFind(m, key) : TRUE
         IN  SubSeq(m, 1, i - 1) \o SubSeq(m, i + 1, Len(m))
    ELSE m

\* CustomTreeMap::len (types.rs 185-187)
BTreeLen(m) == Len(m)

\* the record of a call on the map
TCall(op, key, ret) == [op |-> op, key |-> key, pre |-> tree, ret |-> ret]

\* tree.insert(key, value)
TreeInsertOp(key, value) ==
    /\ treeOps < MaxTreeOps
    /\ tree' = BTreeInsert(tree, key, value)
    /\ tcall' = TCall("insert", key, None)
    /\ latest' = [latest EXCEPT ![key] = Some(value)]
    /\ treeOps' = treeOps + 1
    /\ UNCHANGED <<cvars, host, hcall, ivars, nvars, gvars, fvars>>

\* tree.remove(key)
TreeRemoveOp(key) ==
    /\ treeOps < MaxTreeOps
    /\ tree' = BTreeRemove(tree, key)
    /\ tcall' = TCall("remove", key, BTreeGet(tree, key))
    /\ latest' = [latest EXCEPT ![key] = None]
    /\ treeOps' = treeOps + 1
    /\ UNCHANGED <<cvars, host, hcall, ivars, nvars, gvars, fvars>>

\* tree.get(key)
TreeGetOp(key) ==
    /\ treeOps < MaxTreeOps
    /\ tcall' = TCall("get", key, BTreeGet(tree, key))
    /\ treeOps' = treeOps + 1
    /\ UNCHANGED <<tree, latest, cvars, host, hcall, ivars, nvars, gvars, fvars>>

\* CustomTreeMap::new() (types.rs 156-158)
NoTree ==
    /\ tree = BTreeNew
    /\ tcall = [op |-> "", key |-> <<>>, pre |-> BTreeNew, ret |-> None]
    /\ latest = [k \in TreeKeys |-> None]
    /\ treeOps = 0

\* ------------------------------------------------------------- ParentGroups

\* elements in the longest array deserialized
MaxGroups == 3

\* constructions, pushes and builds ever made
MaxGroupOps == 3

\* group names in use
GroupNames == {"cisco", "juniper"}

\* a JSON array
JsonArray(a) == [t |-> "array", a |-> a]

\* the elements an input array is made of: group names and a number
GroupElements == {JsonString(g) : g \in GroupNames} \cup {JsonNumber("7")}

\* the inputs deserialized: arrays of up to MaxGroups elements, a bare string,
\* a number
RECURSIVE ArraysOfLen(_)
ArraysOfLen(n) ==
    IF n = 0 THEN {<<>>}
    ELSE {Append(a, e) : a \in ArraysOfLen(n - 1), e \in GroupElements}
GroupInputs ==
    {JsonArray(a) : a \in UNION {ArraysOfLen(n) : n \in 0..MaxGroups}}
        \cup {JsonString("name"), JsonNumber("7")}

\* Result<T, E>
Ok(v) == [ok |-> TRUE, v |-> v]
Err(e) == [ok |-> FALSE, e |-> e]

\* the message of inventory.rs 143; the type name stands between backquotes
\* there, written as apostrophes here
GroupsErrMsg == "Groups should be an array of strings for use with 'ParentGroups'"

\* ParentGroups::new() (inventory.rs 129-133)
ParentGroupsNew == <<>>

\* (mutant) no name is taken to be in the list yet
Contains_never(groups, value) == FALSE

\* Vec::contains
Contains(groups, value) == \E i \in DOMAIN groups : groups[i] = value

\* ParentGroupsVisitor::visit_seq (inventory.rs 172-184), from element i on:
\* next_element::<String>() fails on an element that is no string, a string
\* not yet in the list is pushed
RECURSIVE VisitSeq(_, _, _)
VisitSeq(seq, i, groups) ==
    IF i > Len(seq) THEN Ok(groups)
    ELSE IF AsStr(seq[i]) = None THEN Err("invalid type: expected a string")
    ELSE VisitSeq(seq, i + 1,
                  IF ~Contains(groups, AsStr(seq[i])[1])
                  THEN Append(groups, AsStr(seq[i])[1]) ELSE groups)

\* deserializer.deserialize_seq(ParentGroupsVisitor) (inventory.rs 140): an
\* array is visited, anything else is an error
DeserializeSeq(input) ==
    IF input.t = "array" THEN VisitSeq(input.a, 1, <<>>)
    ELSE Err("invalid type: expected a sequence of strings")

\* the strings at the head of an array, up to its first element that is none
RECURSIVE LeadingStrings(_, _)
LeadingStrings(seq, i) ==
    IF i > Len(seq) \/ AsStr(seq[i]) = None THEN <<>>
    ELSE <<AsStr(seq[i])[1]>> \o LeadingStrings(seq, i + 1)

\* (mutant) an error yields the strings read before it
DeserializeGroups_lenient(input) ==
    IF DeserializeSeq(input).ok THEN DeserializeSeq(input)
    ELSE Ok(IF input.t = "array" THEN LeadingStrings(input.a, 1) ELSE <<>>)

\* <ParentGroups as Deserialize>::deserialize (inventory.rs 135-150): any
\* error is replaced by the custom message
DeserializeGroups(input) ==
    IF DeserializeSeq(input).ok THEN DeserializeSeq(input) ELSE Err(GroupsErrMsg)

\* the record of a deserialization
NoDeserialization == [input |-> JsonArray(<<>>), result |-> Err("")]

\* serde_json::from_value::<ParentGroups>(input): the value, if any, becomes
\* the list at hand
DeserializeOp(input) ==
    /\ groupOps < MaxGroupOps
    /\ LET result == DeserializeGroups(input)
       IN  /\ gcall' = [input |-> input, result |-> result]
           /\ parent_groups' = IF result.ok THEN Some(result.v) ELSE parent_groups
    /\ groupOps' = groupOps + 1
    /\ UNCHANGED <<built, cvars, host, hcall, ivars, nvars, tvars, fvars>>

\* ParentGroups::new()
NewGroups ==
    /\ groupOps < MaxGroupOps
    /\ parent_groups' = Some(ParentGroupsNew)
    /\ groupOps' = groupOps + 1
    /\ UNCHANGED <<gcall, built, cvars, host, hcall, ivars, nvars, tvars, fvars>>

\* groups.push(name), Vec::push through DerefMut (inventory.rs 120-121)
PushGroup(name) ==
    /\ groupOps < MaxGroupOps
    /\ parent_groups # None
    /\ parent_groups' = Some(Append(parent_groups[1], name))
    /\ groupOps' = groupOps + 1
    /\ UNCHANGED <<gcall, built, cvars, host, hcall, ivars, nvars, tvars, fvars>>

\* Host::builder(name).groups(groups).build() (inventory.rs 364-367, 390-404)
BuildWithGroups ==
    /\ groupOps < MaxGroupOps
    /\ parent_groups # None
    /\ built' = Some([HostNew("router1.lab") EXCEPT !.groups = parent_groups])
    /\ groupOps' = groupOps + 1
    /\ UNCHANGED <<parent_groups, gcall, cvars, host, hcall, ivars, nvars, tvars, fvars>>

\* no ParentGroups value and no host built from one yet
NoGroups ==
    /\ parent_groups = None
    /\ gcall = NoDeserialization
    /\ built = None
    /\ groupOps = 0

\* ---------------------------------------------------------------- Genja

\* filter calls made on the value
MaxFilters == 3

\* the names of the hosts of the inventory handed to Genja::new; each is the
\* key of its host in inventory.hosts
GenjaHosts == {<<"h", "1">>, <<"h", "2">>, <<"h", "1", "0">>}

\* a predicate on hosts (impl Fn(&Host) -> bool), as the hosts it accepts
Predicates == SUBSET GenjaHosts

\* the keys of a CustomTreeMap in the order its iterator yields them
\* (BTreeMap::keys / iter: ascending by <NatString as Ord>::cmp)
KeysInOrder(S) ==
    IF S = {} THEN <<>>
    ELSE CHOOSE q \in [1..Cardinality(S) -> S] :
            \A i, j \in 1..Cardinality(S) : i < j => NatCompare(q[i], q[j]) = "Less"

\* Genja::new (lib.rs 26-36): host_ids are the keys of inventory.hosts
GenjaNew(hosts) == [inventory |-> hosts, host_ids |-> KeysInOrder(hosts)]

\* Genja::filter (lib.rs 39-55): the ids of the hosts of self.inventory.hosts
\* that pred accepts; the inventory is shared
Filter(g, pred) ==
    [inventory |-> g.inventory, host_ids |-> KeysInOrder(g.inventory \cap pred)]

\* Genja::iter_hosts (lib.rs 57-61): the hosts of host_ids found in the inventory
IterHosts(g) == {g.host_ids[i] : i \in DOMAIN g.host_ids} \cap g.inventory

\* Genja::host_count (lib.rs 67-69)
HostCount(g) == Len(g.host_ids)

\* no filter call made yet
NoFilter == [op |-> "none", pre |-> GenjaNew({}), pred |-> {}, n |-> 0]

\* genja = genja.filter(pred)
FilterOp(pred) ==
    /\ fcall.n < MaxFilters
    /\ genja' = Filter(genja, pred)
    /\ fcall' = [op |-> "filter", pre |-> genja, pred |-> pred, n |-> fcall.n + 1]
    /\ UNCHANGED <<cvars, host, hcall, ivars, nvars, tvars, gvars>>

\* no Genja value built
NoGenja == genja = GenjaNew({}) /\ fcall = NoFilter

\* no value of the library types built yet
NoValues == NoStrings /\ NoTree /\ NoGroups /\ NoGenja

\* ---------------------------------------------------------------- inventory

\* operations on the inventory (its hosts, its hook, its connection cache)
\* ever started
MaxHostOps == 4

\* the hosts of inventory_setup (tests/common/mod.rs 50-60)
HostNames == {"router1.lab", "switch1.lab"}

\* mapping.get(key).and_then(|value| value.as_str())
MappedStr(mapping, key) ==
    IF ObjGet(mapping, key) = None THEN None ELSE AsStr(ObjGet(mapping, key)[1])

\* (mutant) hostnames are left as they are
ObfuscatedHostname_keep(hostname, mapping) == hostname

\* the hook of inventory_setup, mod.rs 27-31: a hostname that is a key of the
\* mapping with a string value is replaced by that value
ObfuscatedHostname(hostname, mapping) ==
    IF hostname # None
    THEN LET mapped == MappedStr(mapping, hostname[1])
         IN  IF mapped # None THEN Some(mapped[1]) ELSE hostname
    ELSE hostname

\* the hook of inventory_setup, mod.rs 33-45: a string mgmt_ip of an object
\* data blob that is a key of the mapping with a string value is replaced
ObfuscatedData(data, mapping) ==
    IF data = None THEN data
    ELSE LET object == AsObject(data[1]) IN
         IF object = None THEN data
         ELSE LET mgmt_ip == ObjGet(object[1], "mgmt_ip") IN
              IF mgmt_ip = None THEN data
              ELSE LET ip == AsStr(mgmt_ip[1]) IN
                   IF ip = None THEN data
                   ELSE LET mapped == MappedStr(mapping, ip[1]) IN
                        IF mapped = None THEN data
                        ELSE Some(JsonObject(
                                 [object[1] EXCEPT !["mgmt_ip"] = JsonString(mapped[1])]))

\* the options' "obfuscated_ip_map" object, if there is one (mod.rs 19-24)
ObfuscatedIpMap(options) ==
    IF options = None THEN None
    ELSE IF JsonGet(options[1], "obfuscated_ip_map") = None THEN None
    ELSE AsObject(JsonGet(options[1], "obfuscated_ip_map")[1])

\* the closure of inventory_setup (mod.rs 17-48), as a function of the
\* inventory and the options it is called with
ObfuscatedIpTransform(inv, options) ==
    LET mapping == ObfuscatedIpMap(options) IN
    IF mapping = None THEN inv
    ELSE [inv EXCEPT !.hosts =
            [n \in DOMAIN inv.hosts |->
                [inv.hosts[n] EXCEPT
                    !.hostname = ObfuscatedHostname(inv.hosts[n].hostname, mapping[1]),
                    !.data = ObfuscatedData(inv.hosts[n].data, mapping[1])]]]

\* TransformFunction::call (inventory.rs 590-592): calls the stored closure
TransformCall(transform, inv, options) ==
    IF transform = "obfuscated_ip" THEN ObfuscatedIpTransform(inv, options) ELSE inv

\* one hook invocation, as recorded in hookLog
Invocation(inv, options) == [inventory |-> inv, options |-> options]

\* (mutant) an unset hook falls back to the obfuscated-IP transform
ApplyTransformTo_default(inv, log) ==
    LET options == inv.transform_function_options IN
    [inventory |-> TransformCall("obfuscated_ip", inv, options),
     log |-> IF inv.transform_function # None
             THEN Append(log, Invocation(inv, options)) ELSE log]

\* (mutant) the hook is invoked by the first call only
ApplyTransformTo_once(inv, log) ==
    LET options == inv.transform_function_options IN
    IF inv.transform_function # None /\ log = <<>>
    THEN [inventory |-> TransformCall(inv.transform_function[1], inv, options),
          log |-> Append(log, Invocation(inv, options))]
    ELSE [inventory |-> inv, log |-> log]

\* Inventory::apply_transform (inventory.rs 730-735): the inventory after the
\* call and the hook invocations made so far
ApplyTransformTo(inv, log) ==
    IF inv.transform_function # None
    THEN LET options == inv.transform_function_options
         IN  [inventory |-> TransformCall(inv.transform_function[1], inv, options),
              log |-> Append(log, Invocation(inv, options))]
    ELSE [inventory |-> inv, log |-> log]

\* (mutant) resolve recomputes and stores the entry on every call
ResolveCache_recompute(h, connection_type) ==
    TreeInsert(h.resolved_connection_params, connection_type,
               Resolved(h, connection_type))

\* (mutant) a miss starts the cache afresh: the entries of other types are lost
ResolveCache_fresh(h, connection_type) ==
    IF TreeGet(h.resolved_connection_params, connection_type) = None
    THEN TreeInsert(TreeNew, connection_type, Resolved(h, connection_type))
    ELSE h.resolved_connection_params

\* Host::resolve_connection_params (inventory.rs 254-296): the host's cache
\* after the call; an entry is computed and stored only when there is none
ResolveCache(h, connection_type) ==
    IF TreeGet(h.resolved_connection_params, connection_type) = None
    THEN TreeInsert(h.resolved_connection_params, connection_type,
                    Resolved(h, connection_type))
    ELSE h.resolved_connection_params

\* an operation on the inventory may start
CanHostOp == ops + hostOps < MaxHostOps

\* the record of an operation on the inventory
ICall(op, name, connection_type, ret) ==
    [op |-> op, name |-> name, connection_type |-> connection_type,
     pre |-> inventory, ret |-> ret]

\* inventory.hosts.get_mut(name).resolve_connection_params(connection_type)
ResolveIn(name, connection_type) ==
    /\ CanHostOp
    /\ LET after == ResolveCache(inventory.hosts[name], connection_type)
           ret == TreeGet(after, connection_type)
       IN  /\ inventory' =
                [inventory EXCEPT !.hosts[name].resolved_connection_params = after]
           /\ icall' = ICall("resolve", name, connection_type, ret)
           /\ first' = IF first[name][connection_type] = None
                       THEN [first EXCEPT ![name][connection_type] = ret]
                       ELSE first
    /\ hostOps' = hostOps + 1
    /\ UNCHANGED <<hookLog, calls, host, hcall, cvars, pvars>>

\* host.hostname = Some(value), through the public field (inventory.rs 216)
SetHostname(name, value) ==
    /\ CanHostOp
    /\ inventory' = [inventory EXCEPT !.hosts[name].hostname = Some(value)]
    /\ icall' = ICall("set_hostname", name, "", None)
    /\ hostOps' = hostOps + 1
    /\ UNCHANGED <<hookLog, calls, first, host, hcall, cvars, pvars>>

\* host.port = Some(value), through the public field (inventory.rs 217)
SetPort(name, value) ==
    /\ CanHostOp
    /\ inventory' = [inventory EXCEPT !.hosts[name].port = Some(value)]
    /\ icall' = ICall("set_port", name, "", None)
    /\ hostOps' = hostOps + 1
    /\ UNCHANGED <<hookLog, calls, first, host, hcall, cvars, pvars>>

\* an entry inserted into the host's override set, created if there is none,
\* through the public field (inventory.rs 223)
InsertOptions(name, connection_type, options) ==
    /\ CanHostOp
    /\ LET co == inventory.hosts[name].connection_options
           m == IF co = None THEN TreeNew ELSE co[1]
       IN  inventory' = [inventory EXCEPT !.hosts[name].connection_options =
                            Some(TreeInsert(m, connection_type, options))]
    /\ icall' = ICall("insert_options", name, connection_type, None)
    /\ hostOps' = hostOps + 1
    /\ UNCHANGED <<hookLog, calls, first, host, hcall, cvars, pvars>>

\* Inventory::apply_transform() (inventory.rs 730-735)
ApplyTransform ==
    /\ CanHostOp
    /\ LET r == ApplyTransformTo(inventory, hookLog)
       IN  /\ inventory' = r.inventory
           /\ hookLog' = r.log
    /\ icall' = ICall("apply_transform", "", "", None)
    /\ calls' = calls + 1
    /\ hostOps' = hostOps + 1
    /\ UNCHANGED <<first, host, hcall, cvars, pvars>>

\* inventory.connections.insert(key, connection), by one thread
CacheInsert(key, o) == CanHostOp /\ Insert(1, key, o)

\* the options of inventory_setup (mod.rs 10-15)
SetupOptions ==
    JsonObject([k \in {"obfuscated_ip_map"} |->
        JsonObject([k2 \in {"10-0-0-1", "10-0-0-2"} |->
            IF k2 = "10-0-0-1" THEN JsonString("10.0.0.1")
            ELSE JsonString("10.0.0.2")])])

\* options blobs a caller can attach: those of inventory_setup, a map with a
\* number under one key, and an "obfuscated_ip_map" that is not an object
OptionBlobs ==
    {SetupOptions,
     JsonObject([k \in {"obfuscated_ip_map"} |->
        JsonObject([k2 \in {"10-0-0-1", "10-0-0-2"} |->
            IF k2 = "10-0-0-1" THEN JsonNumber("167772161")
            ELSE JsonString("10.0.0.2")])]),
     JsonObject([k \in {"obfuscated_ip_map"} |-> JsonString("10.0.0.1")])}

\* data blobs of a host: an object with a mapped, an unmapped or a numeric
\* mgmt_ip, an object without mgmt_ip, a blob that is no object
DataBlobs ==
    {JsonObject([k \in {"mgmt_ip"} |-> JsonString("10-0-0-1")]),
     JsonObject([k \in {"mgmt_ip"} |-> JsonString("192.0.2.7")]),
     JsonObject([k \in {"mgmt_ip"} |-> JsonNumber("167772161")]),
     JsonObject([k \in {"site"} |-> JsonString("lab")]),
     JsonString("10-0-0-1")}

\* Host::builder(name).hostname(..).data(..).build() (mod.rs 50-57)
SetupHost(name, hostname, data) ==
    [HostNew(name) EXCEPT !.hostname = hostname, !.data = data]

\* Hosts::add_host (inventory.rs 556-559) of the two hosts, then the Inventory
\* literal of inventory_setup (mod.rs 62-69)
InventoryOf(router, switch, transform, options) ==
    [hosts |-> TreeInsert(TreeInsert(TreeNew, router.name, router),
                          switch.name, switch),
     groups |-> None, defaults |-> None,
     transform_function |-> transform,
     transform_function_options |-> options]

\* Inventory::new() (inventory.rs 714-723)
InventoryNew ==
    [hosts |-> TreeNew, groups |-> None, defaults |-> None,
     transform_function |-> None, transform_function_options |-> None]

\* no operation on the inventory yet
NoICall ==
    [op |-> "", name |-> "", connection_type |-> "", pre |-> InventoryNew,
     ret |-> None]

\* the history variables of a fresh inventory
InitHistory ==
    /\ icall = NoICall
    /\ hookLog = <<>>
    /\ calls = 0
    /\ first = [n \in HostNames |-> [ct \in ConnTypes |-> None]]
    /\ hostOps = 0


\* ---------------------------------------------------------- specification

Init ==
    /\ InitCache
    /\ shardOf \in [Keys -> Shards]
    /\ host = HostNew("router1.lab")
    /\ hcall = NoCall
    /\ inventory = InventoryNew
    /\ InitHistory
    /\ NoValues

Next ==
    \E t \in Threads :
        \/ \E k \in Keys : GetOp(t, k)
        \/ \E k \in Keys, o \in Objs : Insert(t, k, o)
        \/ \E k \in Keys : GocGet(t, k)
        \/ GocCtor(t)
        \/ GocEntry(t)
        \/ \E k \in Keys : CcRemove(t, k)
        \/ CcLock(t)
        \/ CcClose(t)
        \/ CaStart(t)
        \/ CaNext(t)
        \/ CaLock(t)
        \/ CaClose(t)
        \/ CaClear(t)
        \/ \E o \in Objs : ClientLock(t, o)
        \/ ClientUnlock(t)
        \/ ClientPanic(t)

Spec == Init /\ [][Next]_vars

\* a built host, resolved for one connection type after the other
InitResolve ==
    /\ InitCache
    /\ shardOf = [k \in Keys |-> 1]
    /\ host \in BuiltHosts
    /\ hcall = NoCall
    /\ inventory = InventoryNew
    /\ InitHistory
    /\ NoValues

NextResolve == \E ct \in ConnTypes : Resolve(ct)

SpecResolve == InitResolve /\ [][NextResolve]_vars

\* the inventories inventory_setup can build: router1.lab with or without a
\* hostname and any data blob, switch1.lab as in the test, the hook and its
\* options attached or not
InventorySetups ==
    {InventoryOf(
        SetupHost("router1.lab", hn, d),
        SetupHost("switch1.lab", Some("10-0-0-2"),
                  Some(JsonObject([k \in {"mgmt_ip"} |-> JsonString("10-0-0-2")]))),
        tf, o) :
        hn \in {None, Some("10-0-0-1")},
        d \in {None} \cup {Some(b) : b \in DataBlobs},
        tf \in {None, Some("obfuscated_ip")},
        o \in {None} \cup {Some(b) : b \in OptionBlobs}}

\* an inventory rewritten by its hook between writes to its hosts and cache
InitInventory ==
    /\ InitCache
    /\ shardOf = [k \in Keys |-> 1]
    /\ host = HostNew("router1.lab")
    /\ hcall = NoCall
    /\ inventory \in InventorySetups
    /\ InitHistory
    /\ NoValues

NextInventory ==
    \/ ApplyTransform
    \/ \E name \in HostNames, v \in {"10-0-0-2", "192.0.2.7"} : SetHostname(name, v)
    \/ \E k \in Keys, o \in Objs : CacheInsert(k, o)

SpecInventory == InitInventory /\ [][NextInventory]_vars

\* the hosts of inventory_setup, resolved, written to and transformed in any order
InitHosts ==
    /\ InitCache
    /\ shardOf = [k \in Keys |-> 1]
    /\ host = HostNew("router1.lab")
    /\ hcall = NoCall
    /\ inventory \in
        {InventoryOf(
            SetupHost("router1.lab", hn,
                      Some(JsonObject([k \in {"mgmt_ip"} |-> JsonString("10-0-0-1")]))),
            SetupHost("switch1.lab", Some("10-0-0-2"),
                      Some(JsonObject([k \in {"mgmt_ip"} |-> JsonString("10-0-0-2")]))),
            Some("obfuscated_ip"), Some(SetupOptions)) :
            hn \in {None, Some("10-0-0-1")}}
    /\ InitHistory
    /\ NoValues

NextHosts ==
    \/ \E name \in HostNames, ct \in ConnTypes : ResolveIn(name, ct)
    \/ \E name \in HostNames : SetHostname(name, "192.0.2.7")
    \/ \E name \in HostNames : SetPort(name, BaseVal.port)
    \/ \E name \in HostNames : InsertOptions(name, "ssh", ConnectionOptionsFull)
    \/ ApplyTransform

SpecHosts == InitHosts /\ [][NextHosts]_vars

\* two keys, compared
InitNatString ==
    /\ InitCache
    /\ shardOf = [k \in Keys |-> 1]
    /\ host = HostNew("router1.lab")
    /\ hcall = NoCall
    /\ inventory = InventoryNew
    /\ InitHistory
    /\ left \in NatStrings
    /\ right \in NatStrings
    /\ ordering = None
    /\ NoTree
    /\ NoGroups
    /\ NoGenja

NextNatString == Cmp

SpecNatString == InitNatString /\ [][NextNatString]_vars

\* a map built by CustomTreeMap::new(), then written and read
InitTree ==
    /\ InitCache
    /\ shardOf = [k \in Keys |-> 1]
    /\ host = HostNew("router1.lab")
    /\ hcall = NoCall
    /\ inventory = InventoryNew
    /\ InitHistory
    /\ NoValues

NextTree ==
    \/ \E key \in TreeKeys, value \in TreeValues : TreeInsertOp(key, value)
    \/ \E key \in TreeKeys : TreeRemoveOp(key)
    \/ \E key \in TreeKeys : TreeGetOp(key)

SpecTree == InitTree /\ [][NextTree]_vars

\* ParentGroups values constructed, deserialized, pushed to and built into hosts
InitGroups ==
    /\ InitCache
    /\ shardOf = [k \in Keys |-> 1]
    /\ host = HostNew("router1.lab")
    /\ hcall = NoCall
    /\ inventory = InventoryNew
    /\ InitHistory
    /\ NoValues

NextGroups ==
    \/ \E input \in GroupInputs : DeserializeOp(input)
    \/ NewGroups
    \/ \E name \in GroupNames : PushGroup(name)
    \/ BuildWithGroups

SpecGroups == InitGroups /\ [][NextGroups]_vars

\* ------------------------------------------------------------ the host store

\* names of the hosts handed to add_host
StoreNames == {<<"r", "1">>, <<"r", " ", "1">>, <<"s", "1">>}

\* Host::builder(name).hostname(..).build(), with and without an address
StoreHosts ==
    {[HostNew(name) EXCEPT !.hostname = hostname] :
        name \in StoreNames, hostname \in {None, Some("10-0-0-1"), Some("10-0-0-2")}}

\* Hosts::add_host (inventory.rs 556-559): let name = host.name.clone();
\* self.insert(name, host), the insert of the CustomTreeMap behind Hosts
AddHostTo(hosts, added) == BTreeInsert(hosts, added.name, added)

\* the hosts of the store in its order, as values_mut() yields them
StoreValues(hosts) == [i \in DOMAIN hosts |-> hosts[i].value]

\* Inventory::apply_transform (inventory.rs 730-735) on an inventory whose hosts
\* are this store and whose hook and options are those of inventory_setup:
\* the hook rewrites the hosts in place, the keys stay
TransformStore(hosts) ==
    LET inv == [InventoryNew EXCEPT
                   !.hosts = StoreValues(hosts),
                   !.transform_function = Some("obfuscated_ip"),
                   !.transform_function_options = Some(SetupOptions)]
        after == ApplyTransformTo(inv, <<>>).inventory.hosts
    IN  [i \in DOMAIN hosts |-> [hosts[i] EXCEPT !.value = after[i]]]

\* inventory.hosts.add_host(added)
AddHost(added) ==
    /\ treeOps < MaxTreeOps
    /\ tree' = AddHostTo(tree, added)
    /\ tcall' = TCall("add_host", added.name, None)
    /\ treeOps' = treeOps + 1
    /\ UNCHANGED <<latest, cvars, host, hcall, ivars, nvars, gvars, fvars>>

\* inventory.apply_transform()
StoreTransform ==
    /\ treeOps < MaxTreeOps
    /\ tree' = TransformStore(tree)
    /\ tcall' = TCall("apply_transform", <<>>, None)
    /\ treeOps' = treeOps + 1
    /\ UNCHANGED <<latest, cvars, host, hcall, ivars, nvars, gvars, fvars>>

\* Hosts::new(), then add_host calls and apply_transform runs
NextStore ==
    \/ \E added \in StoreHosts : AddHost(added)
    \/ StoreTransform

SpecStore == InitTree /\ [][NextStore]_vars

\* Genja::new on an inventory of three hosts, then filter after filter
InitGenja ==
    /\ InitCache
    /\ shardOf = [k \in Keys |-> 1]
    /\ host = HostNew("router1.lab")
    /\ hcall = NoCall
    /\ inventory = InventoryNew
    /\ InitHistory
    /\ NoStrings /\ NoTree /\ NoGroups
    /\ genja = GenjaNew(GenjaHosts)
    /\ fcall = NoFilter

NextGenja == \E pred \in Predicates : FilterOp(pred)

SpecGenja == InitGenja /\ [][NextGenja]_vars

\* a cache in use: insert("A", 1), and possibly insert("B", 2), have returned before
\* the threads start; nothing was locked, closed or removed yet
InitInUse ==
    /\ \E filled \in 1..2 :
          /\ connections_map = [k \in Keys |->
                                  IF k = "A" THEN 1 ELSE IF filled = 2 THEN 2 ELSE NoConn]
          /\ nextObj = filled
          /\ insOn = [k \in Keys |-> k = "A" \/ filled = 2]
    /\ keyOf = [o \in Objs |-> IF o = 2 THEN "B" ELSE "A"]
    /\ mutex = [o \in Objs |-> 0]
    /\ poisoned = {}
    /\ closeCount = [o \in Objs |-> 0]
    /\ ctorCount = [k \in Keys |-> 0]
    /\ pc = [t \in Threads |-> "idle"]
    /\ call = [t \in Threads |-> BlankCall]
    /\ holding = [t \in Threads |-> 0]
    /\ alone = [t \in Threads |-> TRUE]
    /\ ops = 0
    /\ closeOn = [k \in Keys |-> FALSE]
    /\ evicted = [k \in Keys |-> {}]
    /\ shardOf \in [Keys -> Shards]
    /\ host = HostNew("router1.lab")
    /\ hcall = NoCall
    /\ inventory = InventoryNew
    /\ InitHistory
    /\ NoValues

SpecInUse == InitInUse /\ [][Next]_vars

\* the steps thread t takes without starting a call: a call under way goes on
\* whenever the lock it needs is free, the constructor and close() bodies
\* return, and a holder that is not inside a call releases the handle's lock
Proceed(t) ==
    \/ GocCtor(t)
    \/ GocEntry(t)
    \/ CcLock(t)
    \/ CcClose(t)
    \/ CaNext(t)
    \/ CaLock(t)
    \/ CaClose(t)
    \/ CaClear(t)
    \/ ClientUnlock(t)

\* the threads are scheduled fairly (OS threads), and parking_lot's and std's
\* locks are granted once they stay free
SpecInUseFair == SpecInUse /\ \A t \in Threads : WF_vars(Proceed(t))

\* the threads only close: close_connection and close_all_connections calls on
\* a cache in use, in any interleaving
NextClose ==
    \E t \in Threads :
        \/ \E k \in Keys : CcRemove(t, k)
        \/ CcLock(t)
        \/ CcClose(t)
        \/ CaStart(t)
        \/ CaNext(t)
        \/ CaLock(t)
        \/ CaClose(t)
        \/ CaClear(t)

SpecClose == InitInUse /\ [][NextClose]_vars




\* ------------------------------------------------------------------ claims

Done(t, op) == pc[t] = "done" /\ call[t].op = op

\* only get and get_or_create have been called on key k
OnlyLookups(k) == ~insOn[k] /\ ~closeOn[k]

NoInsert == \A k \in Keys : ~insOn[k]

\* the objects a map holds
Range(m) == {m[k] : k \in Keys} \ {NoConn}

\* how often object o occurs in the sequence q
Count(q, o) == Cardinality({i \in DOMAIN q : q[i] = o})

\* C1: threads calling get_or_create concurrently with one key, on a cache
\* where the key is absent, invoke the constructor at most once in total.
C1_SingleConstruction ==
    \A k \in Keys : OnlyLookups(k) => ctorCount[k] <= 1

\* C2: concurrent get_or_create calls with one key (no insert or close on it)
\* all return the object installed in the map under the key.
C2_SameHandle ==
    \A k \in Keys : \A t \in Threads :
        (OnlyLookups(k) /\ Done(t, "get_or_create") /\ call[t].key = k)
            => call[t].ret = connections_map[k]

\* C3: sequentially, get_or_create on a cache holding the key returns the
\* existing handle and does not invoke ctor; on a cache without the key it
\* invokes ctor exactly once and installs the result under the key.
C3_Sequential ==
    \A t \in Threads :
        (Done(t, "get_or_create") /\ alone[t]) =>
            LET c == call[t] IN
            IF c.pre[c.key] # NoConn
            THEN c.ret = c.pre[c.key] /\ c.ctors = 0 /\ connections_map = c.pre
            ELSE /\ c.ctors = 1
                 /\ c.ret # NoConn
                 /\ c.ret \notin Range(c.pre)
                 /\ connections_map = [c.pre EXCEPT ![c.key] = c.ret]

C3_Witness ==
    \E t \in Threads :
        /\ Done(t, "get_or_create") /\ alone[t]
        /\ call[t].pre[call[t].key] # NoConn
        /\ call[t].ret = call[t].pre[call[t].key]
        /\ ctorCount[call[t].key] = 1

\* C4 (as claimed): under any sequence of get, insert, get_or_create,
\* close_connection and close_all_connections a key that stays present keeps
\* mapping to the same object.
C4_KeyKeepsObject ==
    [][\A k \in Keys :
         (connections_map[k] # NoConn /\ connections_map'[k] # NoConn)
             => connections_map'[k] = connections_map[k]]_vars

\* C4 (amended): the object under a key that stays present changes only by an
\* insert on that key; get, get_or_create, close_connection and
\* close_all_connections never replace it.
C4_OnlyInsertReplaces ==
    [][\A k \in Keys :
         (/\ connections_map[k] # NoConn
          /\ connections_map'[k] # NoConn
          /\ connections_map'[k] # connections_map[k])
             => \E t \in Threads :
                    /\ Idle(t)
                    /\ pc'[t] = "done"
                    /\ call'[t].op = "insert"
                    /\ call'[t].key = k]_vars

\* a key stayed under the object built for it through a later get_or_create
C4_Witness ==
    \E t \in Threads : \E u \in Threads \ {t} :
        /\ Done(t, "get_or_create")
        /\ call[t].ctors = 1
        /\ Done(u, "get_or_create")
        /\ call[u].key = call[t].key
        /\ call[u].ctors = 0
        /\ call[u].ret = call[t].ret
        /\ connections_map[call[t].key] = call[t].ret

\* C5: after close_connection(key) or close_all_connections returns with no
\* concurrent writer the key is absent (get returns nothing), and a
\* get_or_create that finds the key absent invokes ctor and returns a new
\* object, distinct from every object closed out of that key.
C5_CloseThenFresh ==
    \A t \in Threads :
        /\ (Done(t, "close_connection") /\ alone[t])
               => Get(connections_map, call[t].key) = NoConn
        /\ (Done(t, "close_all_connections") /\ alone[t])
               => \A k \in Keys : Get(connections_map, k) = NoConn
        /\ (Done(t, "get_or_create") /\ alone[t] /\ call[t].pre[call[t].key] = NoConn)
               => /\ call[t].ctors = 1
                  /\ call[t].ret = connections_map[call[t].key]
                  /\ call[t].ret \notin evicted[call[t].key]
                  /\ closeCount[call[t].ret] = 0

C5_Witness ==
    \E t \in Threads :
        /\ Done(t, "get_or_create") /\ alone[t]
        /\ call[t].pre[call[t].key] = NoConn
        /\ \E o \in evicted[call[t].key] : closeCount[o] = 1
        /\ call[t].ret \notin evicted[call[t].key]

\* C6: close_connection(key) removes the entry of key in one step; it invokes
\* close() exactly once, on the removed connection and under its lock, if an
\* entry was present and its lock could be taken, and not at all otherwise;
\* the entries of the other keys are unchanged.
C6_CloseConnection ==
    \A t \in Threads :
        call[t].op = "close_connection" =>
            LET c == call[t] IN
            /\ alone[t] => /\ connections_map = [c.pre EXCEPT ![c.key] = NoConn]
                           /\ c.connection = c.pre[c.key]
            /\ pc[t] = "cc_lock" => c.connection # NoConn /\ c.closed = <<>>
            /\ pc[t] = "cc_close" => c.closed = <<c.connection>> /\ mutex[c.connection] = t
            /\ pc[t] = "done" =>
                  /\ c.lock = "ok" <=> (c.connection # NoConn /\ c.closed = <<c.connection>>)
                  /\ c.lock # "ok" => c.closed = <<>>
                  /\ c.connection = NoConn => c.lock = "none"
            /\ \A i \in DOMAIN c.closed : closeCount[c.closed[i]] >= 1

C6_Witness ==
    \E t \in Threads :
        /\ Done(t, "close_connection") /\ alone[t]
        /\ call[t].connection # NoConn
        /\ call[t].closed = <<call[t].connection>>
        /\ \E k \in Keys \ {call[t].key} : connections_map[k] # NoConn

\* C7: for different keys A and B, a close_connection(A) running concurrently
\* with get_or_create(B) never blocks it and never affects it: get_or_create(B)
\* is never kept from its map step, B's entry is installed and stays, and its
\* connection gets no close().
C7_Independence ==
    \A t \in Threads :
        (/\ call[t].op = "get_or_create"
         /\ NoInsert
         /\ ~closeOn[call[t].key]) =>
            /\ pc[t] = "goc_entry" => ShardWritable(t, shardOf[call[t].key])
            /\ pc[t] = "done" =>
                  /\ connections_map[call[t].key] # NoConn
                  /\ closeCount[connections_map[call[t].key]] = 0

C7_Witness ==
    \E t \in Threads, u \in Threads :
        /\ pc[t] = "goc_entry"
        /\ pc[u] = "cc_close"
        /\ call[u].key # call[t].key
        /\ shardOf[call[u].key] = shardOf[call[t].key]
        /\ NoInsert

InsideCall(t, k) ==
    \/ pc[t] = "goc_ctor" /\ call[t].key = k
    \/ pc[t] = "cc_close" /\ call[t].key = k
    \/ pc[t] = "ca_close" /\ call[t].entry = k
    \/ Idle(t) /\ holding[t] # 0 /\ keyOf[holding[t]] = k

\* the shards no writer can enter while thread t stays where it is: those t
\* holds a guard on, and those held by a thread waiting for a Mutex t holds
BlockedShards(t) ==
    HeldShards(t) \cup
    UNION {HeldShards(v) : v \in {w \in Threads \ {t} :
                                     pc[w] = "ca_lock" /\ mutex[call[w].connection] = t}}

\* C9: a constructor, open() or close() call that never returns blocks only
\* cache operations on its own key: while a thread is inside such a call for
\* key A, no insert, get_or_create or close_connection on another key B is
\* kept from the shard of B.
C9_HangBlocksOwnKeyOnly ==
    \A t \in Threads : \A a \in Keys :
        InsideCall(t, a) => \A b \in Keys \ {a} : shardOf[b] \notin BlockedShards(t)

\* the fields an override can replace, apart from hostname
OptionFields == {"port", "username", "password", "platform", "extras"}

\* the host's base value of a field (extras: absent)
BaseField(h, f) == IF f = "extras" THEN None ELSE h[f]

\* C10: for a host with no cached entry for connection type T and an override
\* entry for T, resolve_connection_params(T) yields, independently for each of
\* hostname, port, username, password, platform and extras, the override's
\* value when the override has the field and the host's base value (extras:
\* absent) when it has not.
C10_FieldwiseOverride ==
    LET h == hcall.pre
        ct == hcall.connection_type
    IN  (/\ ct \in ConnTypes
         /\ TreeGet(h.resolved_connection_params, ct) = None
         /\ h.connection_options # None
         /\ ct \in DOMAIN h.connection_options[1]) =>
            LET ov == h.connection_options[1][ct]
                r == hcall.ret
            IN  /\ r # None
                /\ r[1].hostname = IF ov.hostname # None THEN ov.hostname[1]
                                   ELSE IF h.hostname # None THEN h.hostname[1]
                                   ELSE h.name
                /\ \A f \in OptionFields :
                     r[1][f] = IF ov[f] # None THEN ov[f] ELSE BaseField(h, f)
                /\ TreeGet(host.resolved_connection_params, ct) = r

\* base port P and override port Q yield Q, with the override's other fields
\* absent and the base ones kept
C10_Witness ==
    /\ hcall.connection_type = "ssh"
    /\ TreeGet(hcall.pre.resolved_connection_params, "ssh") = None
    /\ hcall.pre.port = Some(BaseVal.port)
    /\ hcall.pre.username = Some(BaseVal.username)
    /\ hcall.pre.connection_options # None
    /\ "ssh" \in DOMAIN hcall.pre.connection_options[1]
    /\ hcall.pre.connection_options[1]["ssh"].port = Some(OverVal.port)
    /\ hcall.pre.connection_options[1]["ssh"].username = None
    /\ hcall.ret # None
    /\ hcall.ret[1].port = Some(OverVal.port)
    /\ hcall.ret[1].username = Some(BaseVal.username)

\* the host a resolve call was made on, as it was when the call began
PreHost == icall.pre.hosts[icall.name]

\* the override set of host h has no entry for connection type ct
NoOverride(h, ct) ==
    \/ h.connection_options = None
    \/ ct \notin DOMAIN h.connection_options[1]

\* the base values of host h, field by field
BaseValues(h) ==
    [hostname |-> IF h.hostname # None THEN h.hostname[1] ELSE h.name,
     port |-> h.port, username |-> h.username, password |-> h.password,
     platform |-> h.platform, extras |-> None]

\* C11 (as claimed): for a host with no override set, or whose override set
\* has no entry for connection type T, resolve_connection_params(T) is not an
\* error and yields exactly the host's base values: hostname = the host's
\* hostname if set, otherwise the host's name; port, username, password and
\* platform copied as-is; extras absent.
C11_BaseValues ==
    (icall.op = "resolve" /\ NoOverride(PreHost, icall.connection_type)) =>
        /\ icall.ret # None
        /\ icall.ret[1] = BaseValues(PreHost)

\* C11 (amended): the same, for a host that has no cached entry for T when the
\* call begins; a cached entry is returned as it is, whatever the host's
\* fields have become since it was computed.
C11_BaseValuesOnMiss ==
    (/\ icall.op = "resolve"
     /\ NoOverride(PreHost, icall.connection_type)
     /\ TreeGet(PreHost.resolved_connection_params, icall.connection_type) = None) =>
        /\ icall.ret # None
        /\ icall.ret[1] = BaseValues(PreHost)
        /\ TreeGet(inventory.hosts[icall.name].resolved_connection_params,
                   icall.connection_type) = icall.ret

\* a host without hostname, with a port and an override for "ssh" only, is
\* resolved for "netconf" for the first time: the name and the port come back
C11_Witness ==
    /\ icall.op = "resolve"
    /\ icall.name = "router1.lab"
    /\ icall.connection_type = "netconf"
    /\ PreHost.hostname = None
    /\ PreHost.port = Some(BaseVal.port)
    /\ PreHost.connection_options # None
    /\ DOMAIN PreHost.connection_options[1] = {"ssh"}
    /\ TreeGet(PreHost.resolved_connection_params, "netconf") = None
    /\ icall.ret # None
    /\ icall.ret[1].hostname = "router1.lab"
    /\ icall.ret[1].port = Some(BaseVal.port)
    /\ icall.ret[1].extras = None

\* C12: once resolve_connection_params(T) has stored an entry for type T on a
\* host, no later sequence of resolve calls, writes to the host's fields or
\* override set, or apply_transform runs replaces it: the entry stays the value
\* the first call computed, and every later resolve_connection_params(T) on
\* that host returns it.
C12_Memoized ==
    /\ \A n \in HostNames, ct \in ConnTypes :
          first[n][ct] # None =>
              TreeGet(inventory.hosts[n].resolved_connection_params, ct) = first[n][ct]
    /\ icall.op = "resolve" =>
          /\ icall.ret # None
          /\ icall.ret = first[icall.name][icall.connection_type]
          /\ TreeGet(PreHost.resolved_connection_params, icall.connection_type)
                \in {None, icall.ret}

\* a host resolved for T, then rewritten by the transform hook, is resolved
\* for T again: the entry of the first call comes back, although the host's
\* base values are no longer those
C12_Witness ==
    /\ icall.op = "resolve"
    /\ calls >= 1
    /\ NoOverride(PreHost, icall.connection_type)
    /\ TreeGet(PreHost.resolved_connection_params, icall.connection_type) # None
    /\ icall.ret # None
    /\ icall.ret[1] # BaseValues(PreHost)
    /\ icall.ret = first[icall.name][icall.connection_type]

\* the connection cache: its entries and its connection objects
cacheVars == <<connections_map, nextObj, keyOf, mutex, poisoned, closeCount>>

\* C13: apply_transform on an inventory whose transform_function is unset
\* changes nothing: hosts, groups, defaults, transform options and the
\* connection cache are identical before and after the call, and no hook is
\* invoked.
C13_NoHookNoChange ==
    [][(calls' = calls + 1 /\ inventory.transform_function = None) =>
          /\ inventory' = inventory
          /\ hookLog' = hookLog
          /\ UNCHANGED cacheVars]_vars

\* apply_transform has run without a hook on an inventory with the options of
\* inventory_setup, a host they would rewrite and a cached connection
C13_Witness ==
    /\ icall.op = "apply_transform"
    /\ icall.pre.transform_function = None
    /\ icall.pre.transform_function_options = Some(SetupOptions)
    /\ icall.pre.hosts["router1.lab"].hostname = Some("10-0-0-1")
    /\ connections_map["A"] # NoConn
    /\ inventory = icall.pre

\* C14: each call to apply_transform on an inventory with a hook set invokes
\* the hook exactly once, with the inventory and the inventory's transform
\* options as they were at the start of that call; no record of earlier
\* invocations is kept, so k calls invoke the hook k times.
C14_OncePerCall ==
    /\ inventory.transform_function # None => Len(hookLog) = calls
    /\ (icall.op = "apply_transform" /\ icall.pre.transform_function # None) =>
          /\ hookLog # <<>>
          /\ hookLog[Len(hookLog)] =
                [inventory |-> icall.pre,
                 options |-> icall.pre.transform_function_options]

\* a second apply_transform call has invoked the hook a second time, on an
\* inventory that differs from the one the first call passed
C14_Witness ==
    /\ icall.op = "apply_transform"
    /\ inventory.transform_function # None
    /\ calls = 2
    /\ Len(hookLog) = 2
    /\ hookLog[1].inventory # hookLog[2].inventory
    /\ hookLog[2].inventory = icall.pre

\* the "obfuscated_ip_map" object of the options an apply_transform call began
\* with: a function from keys to JSON values, or the empty function
CallMap ==
    LET o == icall.pre.transform_function_options IN
    IF /\ o # None
       /\ o[1].t = "object"
       /\ "obfuscated_ip_map" \in DOMAIN o[1].o
       /\ o[1].o["obfuscated_ip_map"].t = "object"
    THEN o[1].o["obfuscated_ip_map"].o
    ELSE TreeNew

\* the mapping M of the call: the keys mapped to a string
MappedKeys == {k \in DOMAIN CallMap : CallMap[k].t = "string"}

\* the data blob is an object with a string mgmt_ip that is a key of M
MappedMgmtIp(data) ==
    /\ data # None
    /\ data[1].t = "object"
    /\ "mgmt_ip" \in DOMAIN data[1].o
    /\ data[1].o["mgmt_ip"].t = "string"
    /\ data[1].o["mgmt_ip"].s \in MappedKeys

\* C15: with the obfuscated-IP transform and an options mapping M (from
\* strings to strings), after apply_transform every host whose hostname was a
\* key of M has hostname M[hostname], every host whose data blob has a string
\* mgmt_ip that was a key of M has it replaced by the mapped value, and
\* hostnames and mgmt_ip values that are not keys of M are unchanged.
C15_ObfuscatedIps ==
    (/\ icall.op = "apply_transform"
     /\ icall.pre.transform_function = Some("obfuscated_ip")) =>
        /\ DOMAIN inventory.hosts = DOMAIN icall.pre.hosts
        /\ \A n \in DOMAIN icall.pre.hosts :
             LET before == icall.pre.hosts[n]
                 after == inventory.hosts[n]
             IN  /\ IF before.hostname # None /\ before.hostname[1] \in MappedKeys
                    THEN after.hostname = Some(CallMap[before.hostname[1]].s)
                    ELSE after.hostname = before.hostname
                 /\ IF MappedMgmtIp(before.data)
                    THEN /\ after.data # None
                         /\ after.data[1].t = "object"
                         /\ DOMAIN after.data[1].o = DOMAIN before.data[1].o
                         /\ \A f \in DOMAIN before.data[1].o :
                              after.data[1].o[f] =
                                IF f = "mgmt_ip"
                                THEN [t |-> "string",
                                      s |-> CallMap[before.data[1].o["mgmt_ip"].s].s]
                                ELSE before.data[1].o[f]
                    ELSE after.data = before.data

\* the scenario of inventory_setup: router1.lab's 10-0-0-1 has become
\* 10.0.0.1 in hostname and mgmt_ip, switch1.lab's 10-0-0-2 has become 10.0.0.2
C15_Witness ==
    /\ icall.op = "apply_transform"
    /\ icall.pre.transform_function = Some("obfuscated_ip")
    /\ icall.pre.transform_function_options = Some(SetupOptions)
    /\ icall.pre.hosts["router1.lab"].hostname = Some("10-0-0-1")
    /\ icall.pre.hosts["switch1.lab"].hostname = Some("10-0-0-2")
    /\ MappedMgmtIp(icall.pre.hosts["router1.lab"].data)
    /\ inventory.hosts["router1.lab"].hostname = Some("10.0.0.1")
    /\ inventory.hosts["switch1.lab"].hostname = Some("10.0.0.2")
    /\ inventory.hosts["router1.lab"].data[1].o["mgmt_ip"].s = "10.0.0.1"
    /\ inventory.hosts["switch1.lab"].data[1].o["mgmt_ip"].s = "10.0.0.2"

\* string x is p, then some middle part, then s
HasAffixes(x, p, s) ==
    /\ Len(x) >= Len(p) + Len(s)
    /\ SubSeq(x, 1, Len(p)) = p
    /\ SubSeq(x, Len(x) - Len(s) + 1, Len(x)) = s

\* the part of x between p and s
Middle(x, p, s) == SubSeq(x, Len(p) + 1, Len(x) - Len(s))

\* d is a run of digits
IsDigitRun(d) == d # <<>> /\ \A i \in DOMAIN d : ToDigit(d[i]) # None

\* the number a run of digits denotes
RECURSIVE NumVal(_)
NumVal(d) ==
    IF d = <<>> THEN 0
    ELSE 10 * NumVal(SubSeq(d, 1, Len(d) - 1)) + ToDigit(d[Len(d)])[1]

\* C16: for any two NatString keys that differ only in one embedded run of
\* digits, NatString ordering follows the numeric value of that run ("host2" <
\* "host10" < "host100"), including when a run has leading zeros.
C16_NumericOrder ==
    ordering # None =>
        \A p \in Prefixes, s \in Suffixes :
            (/\ HasAffixes(left, p, s)
             /\ HasAffixes(right, p, s)
             /\ IsDigitRun(Middle(left, p, s))
             /\ IsDigitRun(Middle(right, p, s))) =>
                LET x == NumVal(Middle(left, p, s))
                    y == NumVal(Middle(right, p, s))
                IN  /\ x < y => ordering[1] = "Less"
                    /\ x > y => ordering[1] = "Greater"

\* C17: after any sequence of CustomTreeMap insert and remove operations, keys
\* are unique and get(k) returns the value of the most recent insert under k
\* that was not followed by remove(k), and nothing otherwise: inserting under
\* an existing key overwrites its value without changing len, inserting under
\* a new key increases len by one, and reads of absent keys return nothing
\* without inserting.
C17_MapSemantics ==
    /\ \A i, j \in DOMAIN tree : tree[i].key = tree[j].key => i = j
    /\ \A k \in TreeKeys : BTreeGet(tree, k) = latest[k]
    /\ BTreeLen(tree) = Cardinality({k \in TreeKeys : latest[k] # None})
    /\ tcall.op = "get" => tree = tcall.pre

\* the input of the last deserialization is an array of strings
ArrayOfStrings(input) ==
    input.t = "array" /\ \A i \in DOMAIN input.a : input.a[i].t = "string"

\* the names of an array of strings
NamesOf(input) == [i \in DOMAIN input.a |-> input.a[i].s]

\* no name occurs twice in the list
NoDuplicates(names) ==
    \A i, j \in DOMAIN names : names[i] = names[j] => i = j

\* the names at the positions of first occurrence, from position i on
RECURSIVE FirstOccurrences(_, _)
FirstOccurrences(names, i) ==
    IF i > Len(names) THEN <<>>
    ELSE (IF \A j \in 1..(i - 1) : names[j] # names[i] THEN <<names[i]>> ELSE <<>>)
            \o FirstOccurrences(names, i + 1)

\* C18: deserializing ParentGroups from any sequence of group-name strings
\* yields exactly that sequence with every later duplicate removed and the
\* order of first occurrences preserved; an already de-duplicated sequence
\* comes back unchanged.
C18_DedupOrder ==
    (gcall # NoDeserialization /\ ArrayOfStrings(gcall.input)) =>
        /\ gcall.result.ok
        /\ gcall.result.v = FirstOccurrences(NamesOf(gcall.input), 1)
        /\ NoDuplicates(NamesOf(gcall.input)) =>
              gcall.result.v = NamesOf(gcall.input)

\* cisco, juniper, cisco has been deserialized to cisco, juniper
C18_Witness ==
    /\ gcall.input = JsonArray(<<JsonString("cisco"), JsonString("juniper"),
                                 JsonString("cisco")>>)
    /\ gcall.result = Ok(<<"cisco", "juniper">>)
    /\ parent_groups = Some(<<"cisco", "juniper">>)

\* C19: in every reachable state, whatever sequence of ParentGroups
\* construction (new, deserialization), push through the mutable view, and
\* HostBuilder::groups / build produced it, a host's ParentGroups list contains
\* no duplicate name.
C19_HostGroupsUnique ==
    built # None => NoDuplicates(built[1].groups[1])

\* C20: deserializing ParentGroups from an input that is not an array of
\* strings (a bare string, or an array with a non-string element at any
\* position) returns the validation error of inventory.rs 143 and never a
\* partially filled list.
C20_MalformedIsError ==
    (gcall # NoDeserialization /\ ~ArrayOfStrings(gcall.input)) =>
        /\ ~gcall.result.ok
        /\ gcall.result = Err(GroupsErrMsg)

\* an array with a number after a group name has been refused, and the list
\* at hand is not the name read before the number
C20_Witness ==
    /\ gcall.input = JsonArray(<<JsonString("cisco"), JsonNumber("7")>>)
    /\ gcall.result = Err(GroupsErrMsg)
    /\ parent_groups # Some(<<"cisco">>)

\* thread t has just made an insert call (the step that started the call)
InsertedBy(t) ==
    /\ ops' = ops + 1
    /\ alone'[t]
    /\ call'[t].op = "insert"

\* C21: insert(key, handle) always leaves key mapped to the given handle,
\* whether or not an entry existed; a previously stored connection for that key
\* receives no close() call, and no other key changes; each insert installing
\* its handle in its own step, the map holds the handle of the insert that took
\* effect last.
C21_InsertInstalls ==
    [][\A t \in Threads :
          InsertedBy(t) =>
              /\ connections_map'[call'[t].key] = call'[t].connection
              /\ \A k \in Keys \ {call'[t].key} :
                    connections_map'[k] = connections_map[k]
              /\ closeCount' = closeCount
              /\ mutex' = mutex]_vars

\* an insert has replaced another, never closed connection of its key, itself
\* put there by an insert of the other thread
C21_Witness ==
    \E t \in Threads : \E u \in Threads \ {t} :
        /\ Done(t, "insert")
        /\ Done(u, "insert")
        /\ alone[t]
        /\ call[t].key = call[u].key
        /\ call[t].pre[call[t].key] = call[u].connection
        /\ call[t].connection # call[u].connection
        /\ connections_map[call[t].key] = call[t].connection
        /\ closeCount[call[u].connection] = 0

\* thread t takes the step that follows its lock() call on a poisoned Mutex
PoisonedLockBy(t) ==
    /\ pc[t] \in {"cc_lock", "ca_lock"}
    /\ call[t].connection \in poisoned
    /\ pc'[t] # pc[t]

\* C22: a poisoned lock makes neither close_connection nor close_all_connections
\* fail: the lock() call returns, no close() is invoked on that entry,
\* close_connection returns and close_all_connections goes on with its sweep;
\* and an undisturbed close_all_connections over a map that holds poisoned
\* entries still closes every other entry exactly once, closes no poisoned one,
\* and returns with the map empty.
C22_PoisonedSkipped ==
    [][/\ \A t \in Threads :
            PoisonedLockBy(t) =>
                /\ closeCount' = closeCount
                /\ mutex' = mutex
                /\ call'[t].closed = call[t].closed
                /\ pc'[t] = IF pc[t] = "cc_lock" THEN "done" ELSE "ca_iter"
       /\ \A t \in Threads :
            (/\ pc'[t] = "done" /\ call'[t].op = "close_all_connections" /\ alone'[t]
             /\ Range(call'[t].pre) \cap poisoned' # {}) =>
                /\ \A k \in Keys : connections_map'[k] = NoConn
                /\ \A o \in Range(call'[t].pre) :
                      /\ o \in poisoned' => Count(call'[t].closed, o) = 0
                      /\ o \notin poisoned' =>
                            Count(call'[t].closed, o) = 1 /\ closeCount'[o] >= 1]_vars

\* close_all_connections has swept a map of two entries, one of them poisoned,
\* and closed only the other
C22_Witness ==
    \E t \in Threads :
        /\ Done(t, "close_all_connections") /\ alone[t]
        /\ Cardinality(Range(call[t].pre)) = 2
        /\ \E o \in Range(call[t].pre) :
              /\ o \in poisoned
              /\ closeCount[o] = 0
              /\ call[t].closed = <<CHOOSE q \in Range(call[t].pre) : q # o>>
        /\ \A k \in Keys : connections_map[k] = NoConn

\* C23: resolve_connection_params(T) changes nothing but the cache of the
\* host it is called on: every other field of that host, and every other host,
\* is as before; the cached entries of the other types are as before; on a miss
\* the cache gains the entry under T, on a hit the cache is as before.
C23_OnlyCacheChanges ==
    icall.op = "resolve" =>
        LET T == icall.connection_type
            pre == icall.pre.hosts[icall.name]
            post == inventory.hosts[icall.name]
        IN  /\ [post EXCEPT !.resolved_connection_params =
                                pre.resolved_connection_params] = pre
            /\ \A n \in HostNames \ {icall.name} :
                  inventory.hosts[n] = icall.pre.hosts[n]
            /\ [inventory EXCEPT !.hosts = icall.pre.hosts] = icall.pre
            /\ \A ct \in ConnTypes \ {T} :
                  TreeGet(post.resolved_connection_params, ct) =
                      TreeGet(pre.resolved_connection_params, ct)
            /\ IF TreeGet(pre.resolved_connection_params, T) = None
               THEN TreeGet(post.resolved_connection_params, T) # None
               ELSE post.resolved_connection_params = pre.resolved_connection_params

\* a miss on a host whose cache already holds the entry of another type, and
\* which has an override set: afterwards the cache holds both entries
C23_Witness ==
    /\ icall.op = "resolve"
    /\ PreHost.connection_options # None
    /\ TreeGet(PreHost.resolved_connection_params, icall.connection_type) = None
    /\ \E ct \in ConnTypes \ {icall.connection_type} :
          /\ TreeGet(PreHost.resolved_connection_params, ct) # None
          /\ TreeGet(inventory.hosts[icall.name].resolved_connection_params, ct) # None
    /\ TreeGet(inventory.hosts[icall.name].resolved_connection_params,
               icall.connection_type) # None

\* the entries of a map
Entries(m) == {m[i] : i \in DOMAIN m}

\* C24: the ordered store treats two keys as the same key exactly when their
\* strings are equal: the key of a call compares Equal to the key of a stored
\* entry only if the two strings are identical, so a get or remove that finds
\* an entry finds one stored under its own string, an insert leaves an entry
\* under its own string, and no insert or remove changes an entry stored under
\* a different string.
C24_EqualIffSameString ==
    /\ \A e \in Entries(tcall.pre) :
          NatCompare(e.key, tcall.key) = "Equal" <=> e.key = tcall.key
    /\ (tcall.op \in {"get", "remove"} /\ tcall.ret # None) =>
          \E e \in Entries(tcall.pre) : e.key = tcall.key /\ Some(e.value) = tcall.ret
    /\ tcall.op = "insert" => \E e \in Entries(tree) : e.key = tcall.key
    /\ tcall.op \in {"insert", "remove"} =>
          \A e \in Entries(tcall.pre) : e.key # tcall.key => e \in Entries(tree)

\* the objects the step takes out of the map
RemovedByStep == Range(connections_map) \ Range(connections_map')

\* C25: whatever the interleaving with insert and get_or_create, every object
\* that a close_all_connections call removes from the map (in its clear(),
\* line 703) has had close() invoked on it by that call (an object whose lock
\* is poisoned set aside).
C25_RemovedWereClosed ==
    [][\A t \in Threads :
          (pc[t] = "ca_clear" /\ call'[t].clear_i # call[t].clear_i) =>
              \A o \in RemovedByStep \ poisoned : Count(call[t].closed, o) >= 1]_vars

\* C26: whatever the interleaving of close_connection and
\* close_all_connections calls of several threads, close() is invoked at most
\* once on any one connection object.
C26_ClosedAtMostOnce == \A o \in Objs : closeCount[o] <= 1

\* thread t is inside a cache call the claim does not cover: it holds the lock
\* of a handle and calls close_all_connections, or an operation on that
\* handle's own key
OwnKeyCall(t) ==
    /\ holding[t] # 0
    /\ ~Idle(t)
    /\ \/ call[t].op = "close_all_connections"
       \/ call[t].key = keyOf[holding[t]]

\* C27: the cache never deadlocks: as long as the threads that hold the lock of
\* a handle call cache operations on other keys only, every cache call that
\* has started, close_all_connections included, eventually returns.
C27_EveryCallReturns ==
    [](\A t \in Threads : ~OwnKeyCall(t)) =>
        \A t \in Threads : (~Idle(t)) ~> (pc[t] = "done")

\* C28: g.filter(p) selects a subset of g's selection, namely the hosts of g's
\* selection that satisfy p (so that filter after filter selects the hosts
\* satisfying both predicates), and host_count never grows under filter.
C28_FilterNarrows ==
    fcall.op = "filter" =>
        /\ IterHosts(genja) \subseteq IterHosts(fcall.pre)
        /\ IterHosts(genja) = IterHosts(fcall.pre) \cap fcall.pred
        /\ HostCount(genja) <= HostCount(fcall.pre)

\* C29: in every state of a host store built and changed by add_host calls and
\* apply_transform runs only, each entry is keyed by its host's name; and
\* add_host of a host whose name is already a key leaves the number of hosts
\* as it was.
C29_KeyedByName ==
    /\ \A e \in Entries(tree) : e.key = e.value.name
    /\ (tcall.op = "add_host" /\ \E e \in Entries(tcall.pre) : e.key = tcall.key) =>
          BTreeLen(tree) = BTreeLen(tcall.pre)

====
